---- MODULE Spec2Model ----
(***************************************************************************)
(* Model of the autoformat engines of ckeditor5-autoformat.                *)
(*                                                                         *)
(* One editor holds one block (a paragraph) of text, a selection inside    *)
(* it, and one formatter: an InlineAutoformatEditing                       *)
(* (src/src/inlineautoformatediting.js) or a BlockAutoformatEditing (its   *)
(* tests are src/unnamed/part_000).  The blocks around the block are not   *)
(* part of the state.  The host's model.change / model.enqueueChange queue *)
(* and the 'change' event are modelled as far as the formatter code uses   *)
(* them.                                                                   *)
(*                                                                         *)
(* Spec runs whole change blocks and listeners as single steps.  LoopSpec  *)
(* follows the listener of a regex formatter through the loop of its test  *)
(* callback, one regExp.exec at a time.                                    *)
(*                                                                         *)
(* Offsets are 0-based as in the source; a range <<s, e>> covers the       *)
(* characters text[s+1] .. text[e] of the 1-based TLA+ sequence.           *)
(***************************************************************************)
EXTENDS Integers, Sequences, FiniteSets, TLC

\* Longest block text of the initial document.
MaxLen == 2

\* Number of change blocks the user runs.
MaxEdits == 2

\* Characters of the document: the delimiter and one other character.
Chars == {"*", " "}

\* JavaScript's undefined, where a number or a string is expected.
Undefined == -1

VARIABLES
    cfg,             \* the formatter constructed on the editor
    text,            \* characters of the block
    attrs,           \* for each character, whether it carries the attribute
    anchor,          \* selection anchor offset
    focus,           \* selection focus offset
    selAttr,         \* whether the selection carries the attribute
    lastIndex,       \* regExp.lastIndex of the formatter's global regex
    pendingChanges,  \* model._pendingChanges: callbacks waiting for a batch
    edits,           \* number of change blocks the user has run
    batch,           \* the last batch: its number, type, origin and writer calls
    event,           \* what the listener did on the last 'change' event
    thrown,          \* an exception left a change block or a listener
    loop             \* the default test callback at work: its place, text and arrays

vars == <<cfg, text, attrs, anchor, focus, selAttr, lastIndex,
          pendingChanges, edits, batch, event, thrown, loop>>

----------------------------------------------------------------------------
(* Small helpers *)

Min(S) == CHOOSE x \in S : \A y \in S : x <= y

Reverse(s) == [i \in 1..Len(s) |-> s[Len(s) + 1 - i]]

RECURSIVE SeqsUpTo(_, _)
SeqsUpTo(S, n) ==
    IF n = 0 THEN {<<>>}
    ELSE LET shorter == SeqsUpTo(S, n - 1)
         IN  shorter \cup {Append(s, x) : s \in {t \in shorter : Len(t) = n - 1}, x \in S}

----------------------------------------------------------------------------
(* Regular expressions of the form  pre (open) (content) (close) post  with *)
(* the g flag.  open and close are the delimiter del; content is min or     *)
(* more characters not in excl, as few as possible.  open "may" is the      *)
(* group (del?), close "may" is (del?) and close "group" is (del)?, which   *)
(* is undefined when it takes no part in the match.  The last group is      *)
(* capturing only when groups = 3.                                          *)

\* /(\*)(.+?)(\*)/g
RegExp3 == [pre |-> <<>>, del |-> <<"*">>, excl |-> {}, post |-> <<>>,
            anchored |-> FALSE, groups |-> 3, min |-> 1,
            open |-> "must", close |-> "must"]

\* /(\*)(.+?)\*/g
RegExp2 == [RegExp3 EXCEPT !.groups = 2]

RegExps == {RegExp3, RegExp2}

\* /\s(\*)(.+?)(\*)/g: text before the groups that is in no group.
RegExpPre == [RegExp3 EXCEPT !.pre = <<" ">>]

\* /(\*)(.+?)(\*)\s/g: text after the groups that is in no group.
RegExpPost == [RegExp3 EXCEPT !.post = <<" ">>]

\* /(\*)(.+?)(\*)?/g: the third group may take no part in the match.
RegExpOptional == [RegExp3 EXCEPT !.close = "group"]

\* /(\*?)(.*?)(\*?)/g: matches the empty string.
RegExpEmpty == [RegExp3 EXCEPT !.min = 0, !.open = "may", !.close = "may"]

\* text has the literal lit at offset o.
HasAt(txt, o, lit) ==
    /\ o + Len(lit) <= Len(txt)
    /\ \A j \in 1..Len(lit) : txt[o + j] = lit[j]

\* The ways <<a, k, b>> the pattern matches at offset i: a = 1 when open
\* takes the delimiter, k characters of content, b = 1 when close takes the
\* delimiter.
Candidates(re, txt, i) ==
    {m \in {0, 1} \X (re.min..Len(txt)) \X {0, 1} :
        /\ m[1] = 0 => re.open = "may"
        /\ m[3] = 0 => re.close # "must"
        /\ HasAt(txt, i, re.pre)
        /\ m[1] = 1 => HasAt(txt, i + Len(re.pre), re.del)
        /\ i + Len(re.pre) + m[1] * Len(re.del) + m[2] <= Len(txt)
        /\ \A j \in 1..m[2] : txt[i + Len(re.pre) + m[1] * Len(re.del) + j] \notin re.excl
        /\ m[3] = 1 =>
              HasAt(txt, i + Len(re.pre) + m[1] * Len(re.del) + m[2], re.del)
        /\ HasAt(txt, i + Len(re.pre) + (m[1] + m[3]) * Len(re.del) + m[2], re.post)
        /\ re.anchored =>
              i + Len(re.pre) + (m[1] + m[3]) * Len(re.del) + m[2] + Len(re.post)
                  = Len(txt)}

\* The order in which the engine tries the ways to match: an optional
\* delimiter is taken if it can be (greedy), the content is as short as
\* possible (lazy).
Rank(txt, m) == (1 - m[1]) * 2 * (Len(txt) + 1) + 2 * m[2] + (1 - m[3])

NoMatch == [matched |-> FALSE, index |-> 0, full |-> <<>>, captures |-> <<>>,
            lastIndex |-> 0]

\* A capture group that did not take part in the match.
UndefinedStr == <<"undefined">>

\* The result array of the match m at offset i, c the offset of its content.
matchResult(re, txt, i, m, c) ==
    [matched |-> TRUE,
     index |-> i,
     full |-> SubSeq(txt, i + 1, c + m[2] + m[3] * Len(re.del) + Len(re.post)),
     captures |->
        << IF m[1] = 1 THEN re.del ELSE <<>>,
           SubSeq(txt, c + 1, c + m[2]) >>
        \o (IF re.groups < 3 THEN <<>>
            ELSE IF m[3] = 1 THEN <<re.del>>
            ELSE IF re.close = "group" THEN <<UndefinedStr>>
            ELSE << <<>> >>),
     lastIndex |-> c + m[2] + m[3] * Len(re.del) + Len(re.post)]

\* The match at offset i: the first way the engine finds.
bestAt(re, txt, i, m) ==
    matchResult(re, txt, i, m, i + Len(re.pre) + m[1] * Len(re.del))

matchAt(re, txt, i) ==
    bestAt(re, txt, i,
           CHOOSE m \in Candidates(re, txt, i) :
               \A n \in Candidates(re, txt, i) : Rank(txt, m) <= Rank(txt, n))

\* The leftmost of the offsets where the pattern matches.
firstMatch(re, txt, cands) ==
    IF cands = {} THEN NoMatch ELSE matchAt(re, txt, Min(cands))

\* lastIndex stays where it is when there is no match.
exec_sticky(re, txt, li) ==
    IF {i \in li..Len(txt) : Candidates(re, txt, i) # {}} = {}
    THEN [NoMatch EXCEPT !.lastIndex = li]
    ELSE firstMatch(re, txt, {i \in li..Len(txt) : Candidates(re, txt, i) # {}})

\* regExp.exec( text ) of a global regex: the leftmost match at or after
\* lastIndex; lastIndex moves to the end of the match, or back to 0 when
\* there is none.
exec(re, txt, li) ==
    firstMatch(re, txt, {i \in li..Len(txt) : Candidates(re, txt, i) # {}})

----------------------------------------------------------------------------
(* The test callback built from a regular expression *)

\* result[ n ]
Capture(result, n) ==
    IF n <= Len(result.captures) THEN result.captures[n] ELSE UndefinedStr

\* Two capture groups are enough.
tooFewGroups_three(result) == 1 + Len(result.captures) < 3

\* result.length < 4: the full match and three capture groups are required.
tooFewGroups(result) == 1 + Len(result.captures) < 4

\* The closing delimiter is listed before the opening one.
delimiterPairs_closeFirst(index, leftDel, content, rightDel) ==
    [threw |-> UndefinedStr \in {leftDel, content, rightDel},
     remove |-> << <<index + Len(leftDel) + Len(content),
                     index + Len(leftDel) + Len(content) + Len(rightDel)>>,
                   <<index, index + Len(leftDel)>> >>,
     format |-> << <<index + Len(leftDel), index + Len(leftDel) + Len(content)>> >>]

\* The start and end offsets of the delimiters to remove and of the content
\* to format.  Reading .length of an undefined group throws a TypeError.
delimiterPairs(index, leftDel, content, rightDel) ==
    [threw |-> UndefinedStr \in {leftDel, content, rightDel},
     remove |-> << <<index, index + Len(leftDel)>>,
                   <<index + Len(leftDel) + Len(content),
                     index + Len(leftDel) + Len(content) + Len(rightDel)>> >>,
     format |-> << <<index + Len(leftDel), index + Len(leftDel) + Len(content)>> >>]

\* The length of the whole match is added to the index.
realIndex_end(result, found) == result.index + Len(result.full)

\* found = leftDel + content + rightDel; index += result[ 0 ].length - found.length
realIndex(result, found) == result.index + (Len(result.full) - Len(found))

\* The body of the while loop for one match.
matchPairs(result) ==
    delimiterPairs(
        realIndex(result, Capture(result, 1) \o Capture(result, 2) \o Capture(result, 3)),
        Capture(result, 1), Capture(result, 2), Capture(result, 3))

\* What testCallback returns.
TestOutput(remove, format, li, threw) ==
    [remove |-> remove, format |-> format, lastIndex |-> li, threw |-> threw]

\* testCallback( text ) for a regular expression: the loop over regExp.exec.
RECURSIVE testLoop(_, _, _, _, _)

testPush(re, txt, remove, format, result, pairs) ==
    IF pairs.threw THEN TestOutput(remove, format, result.lastIndex, TRUE)
    ELSE testLoop(re, txt, result.lastIndex, remove \o pairs.remove,
                  format \o pairs.format)

testStep(re, txt, remove, format, result) ==
    IF ~result.matched THEN TestOutput(remove, format, 0, FALSE)
    ELSE IF tooFewGroups(result) THEN TestOutput(remove, format, result.lastIndex, FALSE)
    ELSE testPush(re, txt, remove, format, result, matchPairs(result))

testLoop(re, txt, li, remove, format) ==
    testStep(re, txt, remove, format, exec(re, txt, li))

testCallback(re, txt, li) == testLoop(re, txt, li, <<>>, <<>>)

\* What a custom test callback may return for a text: up to two remove pairs
\* and up to one format pair, each an empty array (both bounds undefined) or
\* offsets into the text: one of the first two characters or the last one to
\* remove, the whole text or the text between its ends to format.
InText(pairs, txt) ==
    {p \in pairs : 0 <= p[1] /\ p[1] < p[2] /\ p[2] <= Len(txt)}

RemovePairs(txt) ==
    {<<Undefined, Undefined>>}
    \cup InText({<<0, 1>>, <<1, 2>>, <<Len(txt) - 1, Len(txt)>>}, txt)

FormatPairs(txt) ==
    {<<Undefined, Undefined>>}
    \cup InText({<<0, Len(txt)>>, <<1, Len(txt) - 1>>}, txt)

CallbackOutputs(txt) ==
    {TestOutput(r, f, 0, FALSE) :
        r \in SeqsUpTo(RemovePairs(txt), 2), f \in SeqsUpTo(FormatPairs(txt), 1)}

----------------------------------------------------------------------------
(* The document and the writer *)

\* A child of the block that is no text node: an inline element.
Element == "<softBreak>"

\* '' + b.data for one child: a character of a text node, or the word
\* undefined for a child without data.
dataOf(child) ==
    IF child = Element THEN <<"u", "n", "d", "e", "f", "i", "n", "e", "d">>
    ELSE <<child>>

RECURSIVE reduceData(_)
reduceData(children) ==
    IF children = <<>> THEN <<>>
    ELSE dataOf(Head(children)) \o reduceData(Tail(children))

\* Returns whole text from parent element by adding all data from text nodes
\* together.
getText(d) == reduceData(d.text)

\* The pairs with both bounds defined, as ranges inside the block.
testOutputToRanges(arrays) ==
    SelectSeq(arrays, LAMBDA array : array[1] # Undefined /\ array[2] # Undefined)

\* schema.getValidRanges( ranges, attributeKey ): the parts of the ranges
\* where the schema allows the attribute.
getValidRanges(ranges, allowed) == IF allowed THEN ranges ELSE <<>>

\* Where an offset lands after the characters of <<s, e>> are removed.
ShiftLeft(o, s, e) == IF o >= e THEN o - (e - s) ELSE IF o > s THEN s ELSE o

\* writer.remove( range ); a range that reaches outside the block throws.
removeRange(d, r) ==
    LET s == r[1]
        e == r[2]
    IN  IF d.thrown THEN d
        ELSE IF s > e \/ e > Len(d.text) THEN [d EXCEPT !.thrown = TRUE]
        ELSE [d EXCEPT !.text = SubSeq(d.text, 1, s) \o SubSeq(d.text, e + 1, Len(d.text)),
                       !.attrs = SubSeq(d.attrs, 1, s) \o SubSeq(d.attrs, e + 1, Len(d.attrs)),
                       !.anchor = ShiftLeft(d.anchor, s, e),
                       !.focus = ShiftLeft(d.focus, s, e)]

\* writer.setAttribute( attributeKey, true, range ); a collapsed selection
\* right after a character of the range takes the attribute over.
setAttribute(d, r) ==
    LET s == r[1]
        e == r[2]
    IN  IF d.thrown THEN d
        ELSE IF s > e \/ e > Len(d.text) THEN [d EXCEPT !.thrown = TRUE]
        ELSE [d EXCEPT !.attrs = [i \in 1..Len(d.attrs) |->
                                     IF s < i /\ i <= e THEN TRUE ELSE d.attrs[i]],
                       !.selAttr = IF d.anchor = d.focus /\ s < d.focus /\ d.focus <= e
                                   THEN TRUE ELSE d.selAttr]

\* The selection keeps the attribute it has.
removeSelectionAttribute_keep(d) == d

\* writer.removeSelectionAttribute( attributeKey )
removeSelectionAttribute(d) == IF d.thrown THEN d ELSE [d EXCEPT !.selAttr = FALSE]

\* writer.insertText( data, doc.selection.getFirstPosition() ): the text
\* carries no attribute, and the selection moves behind it.
insertText(d, data) ==
    LET p == IF d.anchor <= d.focus THEN d.anchor ELSE d.focus
    IN  [d EXCEPT !.text = SubSeq(d.text, 1, p) \o data \o SubSeq(d.text, p + 1, Len(d.text)),
                  !.attrs = SubSeq(d.attrs, 1, p) \o [i \in 1..Len(data) |-> FALSE]
                                \o SubSeq(d.attrs, p + 1, Len(d.attrs)),
                  !.anchor = d.anchor + Len(data),
                  !.focus = d.focus + Len(data)]

\* doc.selection.getFirstRange()
getFirstRange(d) ==
    IF d.anchor <= d.focus THEN <<d.anchor, d.focus>> ELSE <<d.focus, d.anchor>>

\* for ( const range of ranges ) writer.remove( range )
RECURSIVE removeAll(_, _)
removeAll(d, ranges) ==
    IF ranges = <<>> THEN d
    ELSE removeAll(removeRange(d, Head(ranges)), Tail(ranges))

\* for ( const range of validRanges ) writer.setAttribute( attributeKey, true, range )
RECURSIVE setAttributeAll(_, _)
setAttributeAll(d, ranges) ==
    IF ranges = <<>> THEN d
    ELSE setAttributeAll(setAttribute(d, Head(ranges)), Tail(ranges))

----------------------------------------------------------------------------
(* The change listeners *)

\* No batch counts as transparent.
isTransparent_never(batchType) == FALSE

\* batch.type == 'transparent'
isTransparent(batchType) == batchType = "transparent"

\* Every selection counts as collapsed.
notCollapsed_never(d) == FALSE

\* !selection.isCollapsed
notCollapsed(d) == d.anchor # d.focus

\* A single insertion of text of any length counts as typing.
notTyping_anyLength(changes) ==
    \/ Len(changes) # 1
    \/ changes[1].type # "insert"
    \/ changes[1].name # "$text"

\* A single change of one character of text of any type counts as typing.
notTyping_anyType(changes) ==
    \/ Len(changes) # 1
    \/ changes[1].name # "$text"
    \/ changes[1].length # 1

\* No change set counts as typing.
notTyping_always(changes) == TRUE

\* Typing is represented by only a single change.
notTyping(changes) ==
    \/ Len(changes) # 1
    \/ changes[1].type # "insert"
    \/ changes[1].name # "$text"
    \/ changes[1].length # 1

\* Ranges of one kind are enough to go on.
nothingToDo_either(rangesToFormat, rangesToRemove) ==
    ~(Len(rangesToFormat) # 0 \/ Len(rangesToRemove) # 0)

\* !( rangesToFormat.length && rangesToRemove.length )
nothingToDo(rangesToFormat, rangesToRemove) ==
    ~(Len(rangesToFormat) # 0 /\ Len(rangesToRemove) # 0)

\* The callback goes in front of the change block that is running.
enqueueChange_first(pending, entry) == <<entry>> \o pending

\* editor.model.enqueueChange( callback ): a new batch, run after the
\* change blocks that are already pending.
enqueueChange(pending, entry) == Append(pending, entry)

\* What a listener leaves behind when it returns before testing.
Ignored(li) ==
    [tested |-> FALSE, threw |-> FALSE, enqueue |-> <<>>, lastIndex |-> li]

\* A change block waiting in model._pendingChanges.
Pending(batchType, by, edit, format, remove) ==
    [batchType |-> batchType, by |-> by, edit |-> edit, format |-> format,
     remove |-> remove]

NoEdit == [op |-> "none", data |-> <<>>]

\* What a listener leaves behind after its test.
Seen(li, threw, enqueue) ==
    [tested |-> TRUE, threw |-> threw, enqueue |-> enqueue, lastIndex |-> li]

\* The end of the inline listener: nothing without ranges of both kinds,
\* otherwise the change block that formats and removes.
InlineEnqueue(testOutput, rangesToFormat, rangesToRemove) ==
    IF testOutput.threw THEN Seen(testOutput.lastIndex, TRUE, <<>>)
    ELSE IF nothingToDo(rangesToFormat, rangesToRemove)
    THEN Seen(testOutput.lastIndex, FALSE, <<>>)
    ELSE Seen(testOutput.lastIndex, FALSE,
              <<Pending("default", "inline", NoEdit, rangesToFormat, rangesToRemove)>>)

InlineTest(testOutput) ==
    InlineEnqueue(testOutput, testOutputToRanges(testOutput.format),
                  testOutputToRanges(testOutput.remove))

\* The 'change' listener of InlineAutoformatEditing.  out is what a custom
\* test callback returns for the scanned text.
InlineListener(batchType, changes, d, li, out) ==
    IF isTransparent(batchType) THEN Ignored(li)
    ELSE IF notCollapsed(d) THEN Ignored(li)
    ELSE IF notTyping(changes) THEN Ignored(li)
    ELSE IF cfg.test = "regexp"
    THEN InlineTest(testCallback(cfg.regExp, SubSeq(getText(d), 1, d.focus), li))
    ELSE InlineTest([out EXCEPT !.lastIndex = li])

\* pattern.exec( text ) of the block patterns /^[*]\s$/ and /^[*]\s/: the
\* length of the match at the start of the text, or Undefined.
blockMatch(pattern, txt) ==
    IF /\ Len(txt) >= 2
       /\ txt[1] = "*"
       /\ txt[2] = " "
       /\ (pattern = "anchored" => Len(txt) = 2)
    THEN 2 ELSE Undefined

\* The end of the block listener: nothing without a match or without an
\* enabled command, otherwise the change block that removes the match and
\* runs the action.
BlockEnqueue(match, li) ==
    IF match = Undefined THEN Seen(li, FALSE, <<>>)
    ELSE IF cfg.action = "command" /\ ~(cfg.registered /\ cfg.enabled)
    THEN Seen(li, FALSE, <<>>)
    ELSE Seen(li, FALSE, <<Pending("default", "block", NoEdit, <<>>, << <<0, match>> >>)>>)

\* The 'change' listener of BlockAutoformatEditing.
BlockListener(batchType, changes, d, li) ==
    IF isTransparent(batchType) THEN Ignored(li)
    ELSE IF notCollapsed(d) THEN Ignored(li)
    ELSE IF notTyping(changes) THEN Ignored(li)
    ELSE BlockEnqueue(blockMatch(cfg.pattern, SubSeq(getText(d), 1, d.focus)), li)

Listener(batchType, changes, d, li, out) ==
    IF cfg.formatter = "inline" THEN InlineListener(batchType, changes, d, li, out)
    ELSE BlockListener(batchType, changes, d, li)

----------------------------------------------------------------------------
(* The change blocks *)

Change(type, name, length) == [type |-> type, name |-> name, length |-> length]

\* Removing the delimiters in the order of the list.
removeOrder_forward(rangesToRemove) == rangesToRemove

\* The order in which the delimiters are removed.
removeOrder(rangesToRemove) == Reverse(rangesToRemove)

\* differ.getChanges() after a formatter's change block.
formatterChanges(validRanges, removed) ==
    [i \in 1..Len(validRanges) |->
        Change("attribute", "$text", validRanges[i][2] - validRanges[i][1])]
    \o [i \in 1..Len(removed) |->
        Change("remove", "$text", removed[i][2] - removed[i][1])]

NonEmpty(ranges) == SelectSeq(ranges, LAMBDA r : r[1] < r[2])

\* The callback InlineAutoformatEditing passes to enqueueChange.
InlineChange(d, entry) ==
    LET validRanges == getValidRanges(entry.format, cfg.allowed)
        formatted ==
            IF cfg.target = "attribute"
            THEN removeSelectionAttribute(setAttributeAll(d, validRanges))
            ELSE d
        formatOps ==
            IF cfg.target = "attribute"
            THEN [i \in 1..Len(validRanges) |-> "setAttribute"]
                    \o <<"removeSelectionAttribute">>
            ELSE <<"formatCallback">>
        order == removeOrder(entry.remove)
    IN  [d |-> removeAll(formatted, order),
         ops |-> formatOps \o [i \in 1..Len(order) |-> "remove"],
         changes |-> formatterChanges(
                        IF cfg.target = "attribute" THEN NonEmpty(validRanges) ELSE <<>>,
                        NonEmpty(order))]

\* The callback BlockAutoformatEditing passes to enqueueChange.
BlockChange(d, entry) ==
    IF cfg.action = "command"
    THEN [d |-> removeAll(d, entry.remove),
          ops |-> <<"remove", "execute">>,
          changes |-> formatterChanges(<<>>, entry.remove)]
    ELSE [d |-> d, ops |-> <<"callback">>, changes |-> <<>>]

\* The change blocks the user runs.
Edits ==
    {[op |-> "insertText", data |-> <<c>>] : c \in Chars}
    \cup {[op |-> "insertText", data |-> <<"*", " ">>]}
    \cup {[op |-> o, data |-> <<>>] : o \in {"remove", "setAttribute", "insertElement", "nothing"}}
    \cup {[op |-> "insertTextAndElement", data |-> <<"*">>]}

UserChange(d, edit) ==
    LET range == getFirstRange(d)
        size == range[2] - range[1]
    IN  CASE edit.op = "insertText" ->
               [d |-> insertText(d, edit.data), ops |-> <<"insertText">>,
                changes |-> <<Change("insert", "$text", Len(edit.data))>>]
          [] edit.op = "remove" ->
               [d |-> removeRange(d, range), ops |-> <<"remove">>,
                changes |-> IF size = 0 THEN <<>> ELSE <<Change("remove", "$text", size)>>]
          [] edit.op = "setAttribute" ->
               [d |-> setAttribute(d, range), ops |-> <<"setAttribute">>,
                changes |-> IF size = 0 THEN <<>> ELSE <<Change("attribute", "$text", size)>>]
          [] edit.op = "insertElement" ->
               [d |-> d, ops |-> <<"insertElement">>,
                changes |-> <<Change("insert", "paragraph", 1)>>]
          [] edit.op = "insertTextAndElement" ->
               [d |-> insertText(d, edit.data),
                ops |-> <<"insertText", "insertElement">>,
                changes |-> <<Change("insert", "$text", Len(edit.data)),
                              Change("insert", "paragraph", 1)>>]
          [] OTHER ->
               [d |-> d, ops |-> <<>>, changes |-> <<>>]

----------------------------------------------------------------------------
(* The state machine *)

Doc == [text |-> text, attrs |-> attrs, anchor |-> anchor, focus |-> focus,
        selAttr |-> selAttr, thrown |-> thrown]

InlineConfigs ==
    {[formatter |-> "inline", test |-> "regexp", regExp |-> re, target |-> g,
      allowed |-> a,
      pattern |-> "none", action |-> "none", registered |-> FALSE, enabled |-> FALSE] :
        re \in RegExps, g \in {"attribute", "callback"}, a \in BOOLEAN}
    \cup
    {[formatter |-> "inline", test |-> "callback", regExp |-> RegExp3, target |-> g,
      allowed |-> a,
      pattern |-> "none", action |-> "none", registered |-> FALSE, enabled |-> FALSE] :
        g \in {"attribute", "callback"}, a \in BOOLEAN}

BlockConfigs ==
    {[formatter |-> "block", test |-> "none", regExp |-> RegExp3, target |-> "none",
      allowed |-> TRUE,
      pattern |-> p, action |-> "command", registered |-> c[1], enabled |-> c[2]] :
        p \in {"anchored", "unanchored"},
        c \in {<<FALSE, FALSE>>, <<TRUE, FALSE>>, <<TRUE, TRUE>>}}
    \cup
    {[formatter |-> "block", test |-> "none", regExp |-> RegExp3, target |-> "none",
      allowed |-> TRUE,
      pattern |-> p, action |-> "callback", registered |-> FALSE, enabled |-> FALSE] :
        p \in {"anchored", "unanchored"}}

NoBatch == [n |-> 0, type |-> "none", by |-> "none", edit |-> NoEdit, ops |-> <<>>,
            changes |-> <<>>]

NoEvent == [tested |-> FALSE, enqueued |-> FALSE, threw |-> FALSE]

\* No test callback is at work.
NoLoop == [pc |-> "idle", text |-> <<>>, remove |-> <<>>, format |-> <<>>]

Init ==
    /\ cfg \in InlineConfigs \cup BlockConfigs
    /\ text \in SeqsUpTo(Chars, MaxLen)
    /\ attrs = [i \in 1..Len(text) |-> FALSE]
    /\ focus \in 0..Len(text)
    /\ anchor \in 0..focus
    /\ selAttr = FALSE
    /\ lastIndex = 0
    /\ pendingChanges = <<>>
    /\ edits = 0
    /\ batch = NoBatch
    /\ event = NoEvent
    /\ thrown = FALSE
    /\ loop = NoLoop

\* The outputs a custom test callback can give when the listener gets to it.
Outputs(entry, done) ==
    IF /\ cfg.formatter = "inline"
       /\ cfg.test = "callback"
       /\ ~done.d.thrown
       /\ ~isTransparent(entry.batchType)
       /\ ~notCollapsed(done.d)
       /\ ~notTyping(done.changes)
    THEN CallbackOutputs(SubSeq(getText(done.d), 1, done.d.focus))
    ELSE {TestOutput(<<>>, <<>>, 0, FALSE)}

\* The end of one turn of model._runPendingChanges: the callback's writer
\* calls are in the document, the listener has run (ev), and the callback
\* leaves the queue.  An exception stops the editor where it is.
Finish(pending, done, ev) ==
    /\ text' = done.d.text
    /\ attrs' = done.d.attrs
    /\ anchor' = done.d.anchor
    /\ focus' = done.d.focus
    /\ selAttr' = done.d.selAttr
    /\ thrown' = (done.d.thrown \/ ev.threw)
    /\ lastIndex' = ev.lastIndex
    /\ pendingChanges' =
          IF done.d.thrown \/ ev.threw THEN pending
          ELSE IF ev.enqueue = <<>> THEN Tail(pending)
          ELSE Tail(enqueueChange(pending, ev.enqueue[1]))
    /\ batch' = [n |-> batch.n + 1, type |-> Head(pending).batchType,
                 by |-> Head(pending).by, edit |-> Head(pending).edit,
                 ops |-> done.ops, changes |-> done.changes]
    /\ event' = [tested |-> ev.tested, enqueued |-> ev.enqueue # <<>>,
                 threw |-> ev.threw]
    /\ UNCHANGED <<cfg, loop>>

\* One turn of model._runPendingChanges on the queue pending: its first
\* callback has run in a new batch (done), the document fires 'change' and
\* the listener runs.
Run(pending, done) ==
    IF done.d.thrown THEN Finish(pending, done, Ignored(lastIndex))
    ELSE \E out \in Outputs(Head(pending), done) :
            Finish(pending, done,
                   Listener(Head(pending).batchType, done.changes, done.d, lastIndex, out))

\* No change block is running and the user has change blocks left to run.
Idle == ~thrown /\ pendingChanges = <<>> /\ edits < MaxEdits

\* model.change( writer => ... ) called by the user: the callback runs in a
\* new batch of the default type.
ModelChange ==
    /\ Idle
    /\ edits' = edits + 1
    /\ \E edit \in Edits :
          \E done \in {UserChange(Doc, edit)} :
              Run(<<Pending("default", "user", edit, <<>>, <<>>)>>, done)

\* model.enqueueChange( 'transparent', writer => ... ) called by the user.
ModelEnqueueTransparent ==
    /\ Idle
    /\ edits' = edits + 1
    /\ \E edit \in Edits :
          \E done \in {UserChange(Doc, edit)} :
              Run(<<Pending("transparent", "user", edit, <<>>, <<>>)>>, done)

\* The next turn of model._runPendingChanges: the inline formatter's callback.
RunInlineChange ==
    /\ ~thrown
    /\ pendingChanges # <<>>
    /\ Head(pendingChanges).by = "inline"
    /\ \E done \in {InlineChange(Doc, Head(pendingChanges))} : Run(pendingChanges, done)
    /\ UNCHANGED edits

\* The next turn of model._runPendingChanges: the block formatter's callback.
RunBlockChange ==
    /\ ~thrown
    /\ pendingChanges # <<>>
    /\ Head(pendingChanges).by = "block"
    /\ \E done \in {BlockChange(Doc, Head(pendingChanges))} : Run(pendingChanges, done)
    /\ UNCHANGED edits

Next ==
    \/ ModelChange
    \/ ModelEnqueueTransparent
    \/ RunInlineChange
    \/ RunBlockChange

Spec == Init /\ [][Next]_vars

----------------------------------------------------------------------------
(* The listener of a regex formatter step by step: the loop of the default *)
(* test callback runs one regExp.exec at a time.  The block may hold       *)
(* inline elements, and the regular expression may have text outside its   *)
(* groups, an optional group or an empty match.                            *)

\* Longest block of text of the initial document.
MaxBlock == 5

\* Longest block of the initial document that holds inline elements.
MaxMixed == 2

\* Matches the loop collects before the model stops following it.
MaxMatches == 3

LoopRegExps ==
    {RegExp3, RegExp2, RegExpPre, RegExpPost, RegExpOptional, RegExpEmpty}

LoopConfigs ==
    {[formatter |-> "inline", test |-> "regexp", regExp |-> re,
      target |-> "attribute", allowed |-> TRUE,
      pattern |-> "none", action |-> "none", registered |-> FALSE, enabled |-> FALSE] :
        re \in LoopRegExps}

LoopInit ==
    /\ cfg \in LoopConfigs
    /\ text \in SeqsUpTo(Chars, MaxBlock) \cup SeqsUpTo(Chars \cup {Element}, MaxMixed)
    /\ attrs = [i \in 1..Len(text) |-> FALSE]
    /\ focus \in 0..Len(text)
    /\ anchor = focus
    /\ selAttr = FALSE
    /\ lastIndex = 0
    /\ pendingChanges = <<>>
    /\ edits = 0
    /\ batch = NoBatch
    /\ event = NoEvent
    /\ thrown = FALSE
    /\ loop = NoLoop

\* The user types one character at the caret; the listener lets the change
\* through, takes the text left of the caret and calls the test callback,
\* which starts with empty arrays.
TypeInto(done) ==
    /\ text' = done.d.text
    /\ attrs' = done.d.attrs
    /\ anchor' = done.d.anchor
    /\ focus' = done.d.focus
    /\ batch' = [n |-> batch.n + 1, type |-> "default", by |-> "user",
                 edit |-> NoEdit, ops |-> done.ops, changes |-> done.changes]
    /\ loop' = [pc |-> "while", text |-> SubSeq(getText(done.d), 1, done.d.focus),
                remove |-> <<>>, format |-> <<>>]

Type ==
    /\ loop.pc = "idle"
    /\ edits < MaxEdits
    /\ edits' = edits + 1
    /\ \E c \in Chars :
          \E done \in {UserChange(Doc, [op |-> "insertText", data |-> <<c>>])} :
              TypeInto(done)
    /\ UNCHANGED <<cfg, selAttr, lastIndex, pendingChanges, event, thrown>>

\* One turn of the while loop on the result of regExp.exec.
IterateOn(result, pairs) ==
    /\ lastIndex' = result.lastIndex
    /\ loop' = IF ~result.matched THEN [loop EXCEPT !.pc = "return"]
               ELSE IF tooFewGroups(result) THEN [loop EXCEPT !.pc = "return"]
               ELSE IF pairs.threw THEN [loop EXCEPT !.pc = "threw"]
               ELSE [loop EXCEPT !.remove = @ \o pairs.remove,
                                 !.format = @ \o pairs.format]
    /\ thrown' = (result.matched /\ ~tooFewGroups(result) /\ pairs.threw)

Iterate ==
    /\ loop.pc = "while"
    /\ Len(loop.remove) < 2 * MaxMatches
    /\ \E result \in {exec(cfg.regExp, loop.text, lastIndex)} :
          \E pairs \in {matchPairs(result)} : IterateOn(result, pairs)
    /\ UNCHANGED <<cfg, text, attrs, anchor, focus, selAttr, pendingChanges, edits,
                   batch, event>>

\* The change block a listener's result leads to, or none.
Formatted(ev) ==
    IF ev.enqueue = <<>> THEN [d |-> Doc, ops |-> <<>>, changes |-> <<>>]
    ELSE InlineChange(Doc, ev.enqueue[1])

ReturnWith(ev, done) ==
    /\ text' = done.d.text
    /\ attrs' = done.d.attrs
    /\ anchor' = done.d.anchor
    /\ focus' = done.d.focus
    /\ selAttr' = done.d.selAttr
    /\ thrown' = done.d.thrown
    /\ batch' = IF ev.enqueue = <<>> THEN batch
                ELSE [n |-> batch.n + 1, type |-> "default", by |-> "inline",
                      edit |-> NoEdit, ops |-> done.ops, changes |-> done.changes]
    /\ event' = [tested |-> TRUE, enqueued |-> ev.enqueue # <<>>, threw |-> FALSE]

\* The test callback returns its arrays; the listener turns them into ranges
\* and, with ranges of both kinds, its change block formats and removes.
Return ==
    /\ loop.pc = "return"
    /\ \E ev \in {InlineTest(TestOutput(loop.remove, loop.format, lastIndex, FALSE))} :
          \E done \in {Formatted(ev)} : ReturnWith(ev, done)
    /\ loop' = NoLoop
    /\ UNCHANGED <<cfg, lastIndex, pendingChanges, edits>>

LoopNext ==
    \/ Type
    \/ Iterate
    \/ Return

LoopSpec == LoopInit /\ [][LoopNext]_vars

----------------------------------------------------------------------------
(* Vocabulary of the properties *)

\* The text from the start of the block to the caret.
Scanned == SubSeq(text, 1, focus)

\* The next turn of the queue is a formatter's change block.
InlinePending == pendingChanges # <<>> /\ Head(pendingChanges).by = "inline"

BlockPending == pendingChanges # <<>> /\ Head(pendingChanges).by = "block"

\* A user's change block runs in this step.
UserStep == edits' = edits + 1

\* The change set of one typed character.
IsTyping(changes) == changes = <<[type |-> "insert", name |-> "$text", length |-> 1]>>

\* All matches of a global regex in a text, scanned from offset 0.
RECURSIVE Matches(_, _, _)
Matches(re, txt, from) ==
    LET r == exec(re, txt, from)
    IN  IF ~r.matched THEN <<>> ELSE <<r>> \o Matches(re, txt, r.lastIndex)

\* The 1-based indices of the characters of capture group g of a match.
GroupIndices(re, r, g) ==
    LET before == r.index + Len(re.pre)
                    + (IF g > 1 THEN Len(r.captures[1]) ELSE 0)
                    + (IF g > 2 THEN Len(r.captures[2]) ELSE 0)
    IN  (before + 1)..(before + Len(r.captures[g]))

DelimiterIndices(re, txt) ==
    LET ms == Matches(re, txt, 0)
    IN  UNION {GroupIndices(re, ms[m], 1) \cup GroupIndices(re, ms[m], 3) : m \in 1..Len(ms)}

ContentIndices(re, txt) ==
    LET ms == Matches(re, txt, 0)
    IN  UNION {GroupIndices(re, ms[m], 2) : m \in 1..Len(ms)}

\* The indices of 1..n outside D, in ascending order.
Kept(n, D) ==
    LET S == (1..n) \ D
    IN  [j \in 1..Cardinality(S) |->
            CHOOSE i \in S : Cardinality({x \in S : x < i}) = j - 1]

\* The 1-based indices a list of ranges covers.
Covered(ranges) == UNION {(ranges[i][1] + 1)..ranges[i][2] : i \in 1..Len(ranges)}

----------------------------------------------------------------------------
(* C1 *)

\* The typed character ends the last match of the three-group regex in the
\* text left of the caret, the target is an attribute the schema allows.
C1_Case ==
    /\ InlinePending
    /\ cfg.test = "regexp"
    /\ cfg.regExp.groups = 3
    /\ cfg.target = "attribute"
    /\ cfg.allowed
    /\ LET ms == Matches(cfg.regExp, Scanned, 0)
       IN  ms # <<>> /\ ms[Len(ms)].lastIndex = focus

C1_Post ==
    LET D == DelimiterIndices(cfg.regExp, Scanned)
        C == ContentIndices(cfg.regExp, Scanned)
        kept == Kept(Len(text), D)
    IN  /\ ~thrown'
        /\ text' = [j \in 1..Len(kept) |-> text[kept[j]]]
        /\ attrs' = [j \in 1..Len(kept) |-> IF kept[j] \in C THEN TRUE ELSE attrs[kept[j]]]
        /\ anchor' = focus'
        /\ focus' = focus - Cardinality(D)
        /\ focus' >= 1
        /\ kept[focus'] \in C

\* C1: when a typed character completes a match of a regex with three capture
\* groups and the target is an attribute name, the autoformat transaction
\* leaves the block text without exactly the characters of groups 1 and 3,
\* puts the attribute on exactly the characters of group 2, changes no other
\* character's attribute, and leaves the caret collapsed right after the
\* formatted content.
C1_InlineFormat == [][C1_Case => C1_Post]_vars

\* The formatter has just formatted the content before the caret.
C1_Witness ==
    /\ cfg.formatter = "inline"
    /\ cfg.test = "regexp"
    /\ cfg.regExp.groups = 3
    /\ cfg.target = "attribute"
    /\ cfg.allowed
    /\ batch.by = "inline"
    /\ batch.ops = <<"setAttribute", "removeSelectionAttribute", "remove", "remove">>
    /\ ~thrown
    /\ anchor = focus
    /\ focus >= 1
    /\ attrs[focus]

----------------------------------------------------------------------------
(* C2 *)

Defined(ranges) ==
    \A i \in 1..Len(ranges) : ranges[i][1] # Undefined /\ ranges[i][2] # Undefined

\* C2: the inline formatter goes on only with a format range and a remove
\* range left after the pairs with an undefined bound are dropped.  Otherwise
\* (also when the regex does not match the text left of the caret) the format
\* function is not called, no transaction is queued, and the document is the
\* one the typed character left.
C2_NothingToDo ==
    [][cfg.formatter = "inline" =>
        /\ InlinePending' =>
              /\ Head(pendingChanges').format # <<>>
              /\ Head(pendingChanges').remove # <<>>
              /\ Defined(Head(pendingChanges').format)
              /\ Defined(Head(pendingChanges').remove)
        /\ (event'.enqueued /\ ~thrown') => InlinePending'
        /\ (UserStep /\ event'.tested /\ cfg.test = "regexp"
                /\ ~exec(cfg.regExp, Scanned', 0).matched) => ~event'.enqueued
        /\ (UserStep /\ ~event'.enqueued) =>
              /\ pendingChanges' = <<>>
              /\ batch'.by = "user"
              /\ batch'.ops = UserChange(Doc, batch'.edit).ops
              /\ text' = UserChange(Doc, batch'.edit).d.text
              /\ attrs' = UserChange(Doc, batch'.edit).d.attrs
              /\ focus' = UserChange(Doc, batch'.edit).d.focus]_vars

\* A custom test callback ran on a typed character and left nothing to do.
C2_Witness ==
    /\ cfg.formatter = "inline"
    /\ cfg.test = "callback"
    /\ batch.by = "user"
    /\ IsTyping(batch.changes)
    /\ event.tested
    /\ ~event.enqueued
    /\ pendingChanges = <<>>

----------------------------------------------------------------------------
(* C3 *)

\* The configured pattern matches the text left of the caret.
PatternMatches ==
    IF cfg.formatter = "inline"
    THEN cfg.test = "regexp" /\ cfg.regExp.groups = 3
            /\ exec(cfg.regExp, Scanned, 0).matched
    ELSE /\ Len(Scanned) >= 2
         /\ Scanned[1] = "*"
         /\ Scanned[2] = " "
         /\ (cfg.pattern = "anchored" => Len(Scanned) = 2)

\* C3: on a change event of a transparent batch no formatter tests its pattern,
\* runs its action or queues a transaction; the document is the one the
\* transparent batch produced.
C3_Transparent ==
    [][(batch'.n # batch.n /\ batch'.type = "transparent") =>
        /\ batch'.by = "user"
        /\ ~event'.tested
        /\ ~event'.enqueued
        /\ ~event'.threw
        /\ lastIndex' = lastIndex
        /\ pendingChanges' = <<>>
        /\ text' = UserChange(Doc, batch'.edit).d.text
        /\ attrs' = UserChange(Doc, batch'.edit).d.attrs]_vars

\* A transparent batch typed a character that completes the pattern.
C3_Witness ==
    /\ batch.type = "transparent"
    /\ IsTyping(batch.changes)
    /\ anchor = focus
    /\ PatternMatches
    /\ pendingChanges = <<>>

----------------------------------------------------------------------------
(* C4 *)

\* C4: on a change event seen while the selection is not collapsed the inline
\* formatter neither formats nor removes, whatever the text left of the focus.
C4_NotCollapsed ==
    (cfg.formatter = "inline" /\ batch.n > 0 /\ anchor # focus) =>
        /\ ~event.tested
        /\ ~event.enqueued
        /\ pendingChanges = <<>>
        /\ batch.by = "user"

\* A character was typed at the start of a selected range, and the text left
\* of the focus matches the pattern.
C4_Witness ==
    /\ cfg.formatter = "inline"
    /\ anchor # focus
    /\ batch.type = "default"
    /\ IsTyping(batch.changes)
    /\ PatternMatches

----------------------------------------------------------------------------
(* C5 *)

\* C5: a formatter tests its pattern only on a change set of exactly one
\* insertion of one character of text; on every other change set the handler
\* returns without queuing its action and without throwing.
C5_ChangeFilter ==
    batch.n > 0 =>
        /\ event.tested => IsTyping(batch.changes)
        /\ ~IsTyping(batch.changes) =>
              /\ ~event.tested
              /\ ~event.enqueued
              /\ ~event.threw
              /\ thrown \/ pendingChanges = <<>>

\* Two characters inserted at once complete the pattern.
C5_Witness ==
    /\ batch.type = "default"
    /\ batch.edit.op = "insertText"
    /\ Len(batch.edit.data) = 2
    /\ anchor = focus
    /\ PatternMatches
    /\ ~event.tested
    /\ pendingChanges = <<>>

----------------------------------------------------------------------------
(* C6 *)

Count(ops, op) == Len(SelectSeq(ops, LAMBDA o : o = op))

\* C6: the batch of the triggering edit holds the user's writer calls only
\* and is complete when the formatter's callback is still queued; the
\* callback then runs in one new batch that holds every setAttribute, the
\* removal of the selection attribute and every delimiter removal, and no
\* further batch follows it.
C6_SeparateBatch ==
    [][cfg.formatter = "inline" =>
        /\ batch'.by = "user" => batch'.ops = UserChange(Doc, batch'.edit).ops
        /\ (event'.enqueued /\ ~thrown') =>
              /\ batch'.by = "user"
              /\ Len(pendingChanges') = 1
              /\ Head(pendingChanges').by = "inline"
        /\ InlinePending =>
              /\ batch.by = "user"
              /\ batch'.n = batch.n + 1
              /\ batch'.by = "inline"
              /\ Count(batch'.ops, "remove") = Len(Head(pendingChanges).remove)
              /\ cfg.target = "attribute" =>
                    /\ Count(batch'.ops, "setAttribute") =
                          (IF cfg.allowed THEN Len(Head(pendingChanges).format) ELSE 0)
                    /\ Count(batch'.ops, "removeSelectionAttribute") = 1
              /\ ~event'.enqueued
              /\ thrown' \/ pendingChanges' = <<>>]_vars

\* The typing batch and the autoformat batch have run, in that order.
C6_Witness ==
    /\ cfg.formatter = "inline"
    /\ cfg.target = "attribute"
    /\ batch.by = "inline"
    /\ batch.n = 2
    /\ edits = 1
    /\ Count(batch.ops, "setAttribute") >= 1
    /\ Count(batch.ops, "remove") >= 1
    /\ pendingChanges = <<>>

----------------------------------------------------------------------------
(* C7 *)

\* C7: with a regular expression of fewer than three capture groups the
\* inline formatter gives up on every event: it queues nothing, sets no
\* attribute and removes nothing, so the document is the one the user's
\* change block left.
C7_TwoGroups ==
    [][(cfg.formatter = "inline" /\ cfg.test = "regexp" /\ cfg.regExp.groups < 3) =>
        /\ ~thrown'
        /\ ~event'.enqueued
        /\ pendingChanges' = <<>>
        /\ batch'.by = "user"
        /\ text' = UserChange(Doc, batch'.edit).d.text
        /\ attrs' = UserChange(Doc, batch'.edit).d.attrs]_vars

\* The typed delimiter completes a match of the two-group regex.
C7_Witness ==
    /\ cfg.formatter = "inline"
    /\ cfg.test = "regexp"
    /\ cfg.regExp.groups = 2
    /\ batch.edit.data = <<"*">>
    /\ event.tested
    /\ exec(cfg.regExp, Scanned, 0).matched
    /\ text[focus] = "*"

----------------------------------------------------------------------------
(* C8 *)

PairwiseDisjoint(ranges) ==
    \A i, j \in 1..Len(ranges) :
        i < j => (ranges[i][2] <= ranges[j][1] \/ ranges[j][2] <= ranges[i][1])

\* The text without the characters the ranges cover.
Without(txt, ranges) ==
    [j \in 1..Len(Kept(Len(txt), Covered(ranges))) |->
        txt[Kept(Len(txt), Covered(ranges))[j]]]

\* C8: for pairwise disjoint remove pairs, in whatever order the test callback
\* lists them, the removal does not throw and leaves the text without exactly
\* the characters at the reported offsets.
C8_AnyOrder ==
    [][(InlinePending /\ PairwiseDisjoint(Head(pendingChanges).remove)) =>
        /\ ~thrown'
        /\ text' = Without(text, Head(pendingChanges).remove)]_vars

----------------------------------------------------------------------------
(* C9 *)

\* C9: when the schema allows the attribute nowhere in the format ranges, the
\* autoformat transaction removes nothing and leaves the document unchanged.
C9_SchemaAbort ==
    [][(InlinePending /\ cfg.target = "attribute" /\ ~cfg.allowed) =>
        /\ text' = text
        /\ attrs' = attrs]_vars

----------------------------------------------------------------------------
(* C10 *)

\* C10: with a registered and enabled command, a typed character that
\* completes the block pattern queues one transaction; in it the matched text
\* is removed first and the command is executed after, exactly once.
C10_BlockCommand ==
    [][(cfg.formatter = "block" /\ cfg.action = "command") =>
        /\ (/\ cfg.registered
            /\ cfg.enabled
            /\ UserStep
            /\ batch'.type = "default"
            /\ IsTyping(batch'.changes)
            /\ anchor' = focus'
            /\ PatternMatches') =>
              /\ Len(pendingChanges') = 1
              /\ BlockPending'
        /\ BlockPending =>
              /\ cfg.registered
              /\ cfg.enabled
              /\ batch.by = "user"
              /\ batch'.n = batch.n + 1
              /\ batch'.by = "block"
              /\ batch'.ops = <<"remove", "execute">>
              /\ text' = SubSeq(text, 3, Len(text))
              /\ ~thrown'
              /\ pendingChanges' = <<>>]_vars

\* The command has run after the matched text was removed.
C10_Witness ==
    /\ cfg.formatter = "block"
    /\ cfg.action = "command"
    /\ batch.by = "block"
    /\ batch.ops = <<"remove", "execute">>
    /\ pendingChanges = <<>>
    /\ ~thrown

----------------------------------------------------------------------------
(* C11 *)

\* The start and end offsets of capture group g of the match r in the text.
GroupPair(re, r, g) ==
    LET before == r.index + Len(re.pre)
                    + (IF g > 1 THEN Len(r.captures[1]) ELSE 0)
                    + (IF g > 2 THEN Len(r.captures[2]) ELSE 0)
    IN  <<before, before + Len(r.captures[g])>>

\* For each match its group 1 and its group 3.
RECURSIVE DelimiterPairs(_, _)
DelimiterPairs(re, ms) ==
    IF ms = <<>> THEN <<>>
    ELSE <<GroupPair(re, Head(ms), 1), GroupPair(re, Head(ms), 3)>>
            \o DelimiterPairs(re, Tail(ms))

\* For each match its group 2.
ContentPairs(re, ms) == [m \in 1..Len(ms) |-> GroupPair(re, ms[m], 2)]

\* C11: when the default test callback returns for a regex with three
\* capture groups, its remove pairs are the positions of group 1 and group 3
\* of every match in the scanned text and its format pairs the positions of
\* group 2, also when the pattern takes text that is in no group.
C11_GroupPositions ==
    (loop.pc = "return" /\ cfg.regExp.groups = 3) =>
        /\ loop.remove = DelimiterPairs(cfg.regExp, Matches(cfg.regExp, loop.text, 0))
        /\ loop.format = ContentPairs(cfg.regExp, Matches(cfg.regExp, loop.text, 0))

----------------------------------------------------------------------------
(* C12 *)

\* C12: a match in which one of the three capture groups is undefined ends
\* the listener's work on the event without an exception: the test callback
\* never throws, and nothing is formatted or removed for such a match.
C12_NeverThrows ==
    /\ loop.pc # "threw"
    /\ ~thrown

----------------------------------------------------------------------------
(* C13 *)

\* C13: every turn of the loop of the default test callback that does not end
\* the loop moves the scan position of the regex forward, also when the match
\* is the empty string, so the loop ends after finitely many turns.
C13_LoopAdvances ==
    [][(loop.pc = "while" /\ loop'.pc = "while") => lastIndex' > lastIndex]_vars

----------------------------------------------------------------------------
(* C14 *)

\* C14: the text the listener scans is, offset by offset, the content of the
\* block left of the caret, whatever children the block has, so a pair of
\* offsets into the scanned text is a range of the same characters in the
\* block.
C14_OffsetsCorrespond ==
    loop.pc # "idle" =>
        /\ Len(loop.text) = focus
        /\ \A k \in 1..focus : loop.text[k] = text[k]

----------------------------------------------------------------------------
(* C15 *)

\* C15: what the test callback returns for an event is what it returns for
\* the same scanned text on a regex whose scan starts at 0, whatever events
\* came before: no scan position left by an earlier call changes it.
C15_Stateless ==
    loop.pc = "return" =>
        /\ loop.remove = testCallback(cfg.regExp, loop.text, 0).remove
        /\ loop.format = testCallback(cfg.regExp, loop.text, 0).format

\* The test callback returns matches for the second event of a run.
C15_Witness ==
    /\ loop.pc = "return"
    /\ edits = 2
    /\ batch.n > 1
    /\ loop.remove # <<>>

----------------------------------------------------------------------------
(* C16 *)

\* n times the writer call op.
Times(n, op) == [i \in 1..n |-> op]

\* C16: with an attribute name as target the autoformat transaction first
\* sets the attribute on every valid range, then removes it from the
\* selection, and only then removes the delimiters; after it the selection
\* does not carry the attribute.
C16_FormatThenRemove ==
    [][(InlinePending /\ cfg.target = "attribute") =>
        /\ batch'.by = "inline"
        /\ batch'.ops =
              Times(Len(getValidRanges(Head(pendingChanges).format, cfg.allowed)),
                    "setAttribute")
              \o <<"removeSelectionAttribute">>
              \o Times(Len(Head(pendingChanges).remove), "remove")
        /\ ~thrown' => ~selAttr']_vars

\* After the transaction the character before the caret carries the
\* attribute and the selection does not.
C16_Witness ==
    /\ cfg.formatter = "inline"
    /\ cfg.target = "attribute"
    /\ batch.by = "inline"
    /\ Count(batch.ops, "setAttribute") >= 1
    /\ Count(batch.ops, "remove") >= 1
    /\ ~thrown
    /\ anchor = focus
    /\ focus >= 1
    /\ attrs[focus]
    /\ ~selAttr

----------------------------------------------------------------------------
(* C17 *)

\* Each pair ends where or before the next one starts.
Ascending(pairs) ==
    /\ \A i \in 1..Len(pairs) : pairs[i][1] <= pairs[i][2]
    /\ \A i \in 1..(Len(pairs) - 1) : pairs[i][2] <= pairs[i + 1][1]

\* Each pair starts after the start of the next one.
StartsDescend(pairs) ==
    \A i \in 1..(Len(pairs) - 1) : pairs[i][1] > pairs[i + 1][1]

----------------------------------------------------------------------------
(* C18 *)

\* C18: with an attribute name as target, the change event of the
\* formatter's own transaction does not pass the change filter: its change
\* set is not one insertion of one character of text, the pattern is not
\* tested and nothing is queued, so the batch after a formatter's batch is a
\* user's and the queue is empty again.
C18_NoCascade ==
    [][(cfg.formatter = "inline" /\ cfg.target = "attribute") =>
        /\ InlinePending =>
              /\ batch'.by = "inline"
              /\ ~IsTyping(batch'.changes)
              /\ ~event'.tested
              /\ ~event'.enqueued
              /\ thrown' \/ pendingChanges' = <<>>
        /\ (batch.by = "inline" /\ batch'.n # batch.n) => batch'.by = "user"]_vars

\* The formatter's transaction made a single change of one character.
C18_Witness ==
    /\ cfg.formatter = "inline"
    /\ cfg.target = "attribute"
    /\ batch.by = "inline"
    /\ Len(batch.changes) = 1
    /\ batch.changes[1].length = 1
    /\ ~event.tested
    /\ pendingChanges = <<>>
    /\ ~thrown

----------------------------------------------------------------------------
(* C19 *)

\* Every pair lies inside a text of n characters.
Inside(pairs, n) ==
    \A i \in 1..Len(pairs) :
        0 <= pairs[i][1] /\ pairs[i][1] <= pairs[i][2] /\ pairs[i][2] <= n

\* C19: every remove and format pair of the default test callback lies
\* inside the scanned text, which ends at the caret, so the autoformat
\* transaction leaves the characters at and after the caret and their
\* attributes as they are.
C19_InsideScanned ==
    [][/\ Inside(loop'.remove, Len(loop'.text))
       /\ Inside(loop'.format, Len(loop'.text))
       /\ Len(loop'.text) <= focus'
       /\ loop.pc = "return" =>
             /\ Len(text') - focus' = Len(text) - focus
             /\ SubSeq(text', focus' + 1, Len(text')) = SubSeq(text, focus + 1, Len(text))
             /\ SubSeq(attrs', focus' + 1, Len(attrs')) = SubSeq(attrs, focus + 1, Len(attrs))
      ]_vars

\* The formatter has formatted left of a caret that has text behind it.
C19_Witness ==
    /\ loop.pc = "idle"
    /\ batch.by = "inline"
    /\ Count(batch.ops, "remove") >= 2
    /\ focus < Len(text)
    /\ ~thrown

====
